---- MODULE Spec2Model ----
(***************************************************************************)
(* A model of pkg/minikube/command/ssh_runner.go: one call of a public     *)
(* operation of SSHRunner (Run, CombinedOutput, CombinedOutputTo, Copy,    *)
(* Remove) on one ssh session, with the goroutines the call starts (the    *)
(* two tee tasks of teeSSH, the writer task of Copy) and the remote        *)
(* command as separate processes.                                          *)
(***************************************************************************)
EXTENDS Integers, Sequences, FiniteSets, TLC

\* ------------------------------------------------------------------ bounds
\* Largest declared length of the file handed to Copy.
MaxLen == 2
\* Largest number of bytes the remote command writes to one output stream.
MaxOut == 3
\* Number of bytes a stdout/stderr pipe holds before the remote side blocks.
PipeCap == 2

VARIABLES
    op,          \* the public operation that is called
    pc,          \* position of the calling goroutine
    sess,        \* the ssh session of the call: "none", "open", "closed"
    opens,       \* number of successful NewSession calls
    closes,      \* number of sess.Close calls
    execs,       \* number of remote command executions requested
    cmd,         \* the remote command: "idle", "running", "exit0", "exitN", "startfail"
    err,         \* the variable err of the calling function (shared with Copy's writer)
    ret,         \* the error the public operation returned
    retOut,      \* the text CombinedOutput returned
    diag,        \* the stdout and stderr text Run attached to its error
    log,         \* glog.Errorf lines written so far
    dest,        \* content of the io.Writer handed to CombinedOutputTo
    total,       \* bytes the remote command writes to each stream
    produced,    \* bytes the remote command has written to each stream
    pipe,        \* bytes in flight in each pipe
    tpc,         \* position of each tee goroutine
    tchunk,      \* the chunk a tee goroutine is writing
    tsnap,       \* the buffer content bytes.Buffer.Write read before appending
    delivered,   \* bytes each tee goroutine handed to its writer
    buf,         \* the capture buffers: outB, errB (Run) and combined.b
    mu,          \* combined.mu: "free" or the stream of the holder
    wg,          \* the WaitGroup counter of teeSSH
    flen,        \* f.GetLength()
    srcLen,      \* bytes the content source of f yields
    srcEnd,      \* how the content source ends: "EOF" or "readErr"
    srcReads,    \* Read calls made on the content source
    written,     \* io.Copy's count of bytes written
    copied,      \* the variable copied of Copy
    ioEnd,       \* how io.Copy ended: "none", "EOF", "readErr", "writeErr"
    wpc,         \* position of Copy's writer goroutine
    wres,        \* the error the writer goroutine returned to the errgroup
    stdin,       \* what was sent on the session's input channel, in order
    stdinClosed, \* whether the input channel was closed
    closeRes,    \* what sess.Close() returned: "none" before the call
    writerFirst  \* whether Copy's writer had failed when the remote command failed

vars == <<op, pc, sess, opens, closes, execs, cmd, err, ret, retOut, diag, log,
          dest, total, produced, pipe, tpc, tchunk, tsnap, delivered, buf, mu,
          wg, flen, srcLen, srcEnd, srcReads, written, copied, ioEnd, wpc,
          wres, stdin, stdinClosed, closeRes, writerFirst>>

copyVars == <<flen, srcLen, srcEnd, srcReads, written, copied, ioEnd, wpc,
              wres, stdin, stdinClosed>>
teeVars == <<total, produced, pipe, tpc, tchunk, tsnap, delivered, buf, mu, wg>>
sessVars == <<sess, opens, closes, closeRes>>
outVars == <<ret, retOut, diag, dest>>

Ops == {"Run", "CombinedOutput", "CombinedOutputTo", "Copy", "Remove"}
TeeOps == {"Run", "CombinedOutput", "CombinedOutputTo"}
Streams == {"out", "err"}
Buffers == {"out", "err", "combined"}
Exited == {"exit0", "exitN", "startfail"}

\* ------------------------------------------------------------------ errors
\* An error value: kind is the outermost message, cause the innermost error.
Nil == [kind |-> "nil", cause |-> "nil"]

E(c) == [kind |-> "raw", cause |-> c]

\* errors.Wrap / errors.Wrapf: nil stays nil.
Wrap(e, msg) == IF e = Nil THEN Nil ELSE [kind |-> msg, cause |-> e.cause]

\* fmt.Errorf: never nil, whatever it formats.
Errorf(msg, e) == [kind |-> msg, cause |-> e.cause]

\* What sess.Run / sess.CombinedOutput return for a finished remote command.
SessRunErr(c) == IF c = "exit0" THEN Nil ELSE E(c)

\* Whether Copy's writer has met its error: io.Copy failed, or it ended with a
\* count other than the declared length.
WriterFailed ==
    \/ ioEnd \in {"readErr", "writeErr"}
    \/ ioEnd = "EOF" /\ copied # flen

\* ------------------------------------------------------------------- Init
Init ==
    /\ op \in Ops
    /\ pc = "new"
    /\ sess = "none"
    /\ opens = 0
    /\ closes = 0
    /\ execs = 0
    /\ cmd = "idle"
    /\ err = Nil
    /\ ret = Nil
    /\ retOut = <<>>
    /\ diag = <<>>
    /\ log = {}
    /\ dest = <<>>
    /\ total \in IF op \in TeeOps THEN [Streams -> 0..MaxOut] ELSE {[w \in Streams |-> 0]}
    /\ produced = [w \in Streams |-> 0]
    /\ pipe = [w \in Streams |-> <<>>]
    /\ tpc = [w \in Streams |-> "idle"]
    /\ tchunk = [w \in Streams |-> <<>>]
    /\ tsnap = [w \in Streams |-> <<>>]
    /\ delivered = [w \in Streams |-> 0]
    /\ buf = [b \in Buffers |-> <<>>]
    /\ mu = "free"
    /\ wg = 0
    /\ flen \in IF op = "Copy" THEN 0..MaxLen ELSE {0}
    /\ srcLen \in IF op = "Copy" THEN 0..(MaxLen + 1) ELSE {0}
    /\ srcEnd \in IF op = "Copy" THEN {"EOF", "readErr"} ELSE {"EOF"}
    /\ srcReads = 0
    /\ written = 0
    /\ copied = 0
    /\ ioEnd = "none"
    /\ wpc = "idle"
    /\ wres = Nil
    /\ stdin = <<>>
    /\ stdinClosed = FALSE
    /\ closeRes = "none"
    /\ writerFirst = FALSE

\* ------------------------------------------------------ session creation
\* The message each operation wraps a NewSession failure in.
NewSessionMsg(o) == IF o = "Remove" THEN "getting ssh session" ELSE "NewSession"

\* Where each operation continues once it has its session.
AfterNewSession(o) ==
    CASE o = "Copy" -> "c_stdin"
      [] o = "Remove" -> "rm_run"
      [] OTHER -> "t_outpipe"

\* s.c.NewSession() and the check of its error, at the head of every operation.
NewSession ==
    /\ pc = "new"
    /\ \/ /\ sess' = "open"
          /\ opens' = opens + 1
          /\ err' = Nil
          /\ pc' = AfterNewSession(op)
          /\ UNCHANGED ret
       \/ /\ err' = E("sessErr")
          /\ ret' = Wrap(E("sessErr"), NewSessionMsg(op))
          /\ pc' = IF op = "CombinedOutputTo" THEN "to_check" ELSE "done"
          /\ UNCHANGED <<sess, opens>>
    /\ UNCHANGED <<op, closes, closeRes, execs, cmd, writerFirst, retOut, diag, log, dest, teeVars, copyVars>>

\* ------------------------------------------------------ the remote command
\* The remote command writes one byte to a stream whose pipe has room.
RemoteWrite(w) ==
    /\ cmd = "running"
    /\ produced[w] < total[w]
    /\ Len(pipe[w]) < PipeCap
    /\ pipe' = [pipe EXCEPT ![w] = Append(@, <<w, produced[w] + 1>>)]
    /\ produced' = [produced EXCEPT ![w] = @ + 1]
    /\ UNCHANGED <<op, pc, sessVars, execs, cmd, writerFirst, err, outVars, log, total, tpc,
                   tchunk, tsnap, delivered, buf, mu, wg, copyVars>>

\* The remote command ends once it has written all its output. The receiver
\* Copy starts reports success only after its input was closed; it can fail
\* at any time.
RemoteExit ==
    /\ cmd = "running"
    /\ \A w \in Streams : produced[w] = total[w]
    /\ \/ /\ op = "Copy" => stdinClosed
          /\ cmd' = "exit0"
          /\ UNCHANGED writerFirst
       \/ /\ cmd' = "exitN"
          /\ writerFirst' = WriterFailed
    /\ UNCHANGED <<op, pc, sessVars, execs, err, outVars, log, teeVars, copyVars>>

\* ------------------------------------------------------------------- Copy
\* sess.StdinPipe() and the check of its error.
CopyStdinPipe ==
    /\ pc = "c_stdin"
    /\ \/ /\ pc' = "c_go"
          /\ UNCHANGED <<err, ret>>
       \/ /\ err' = E("pipeErr")
          /\ ret' = Wrap(E("pipeErr"), "StdinPipe")
          /\ pc' = "done"
    /\ UNCHANGED <<op, sessVars, execs, cmd, writerFirst, retOut, diag, log, dest, teeVars, copyVars>>

\* g.Go(func() error {...}): the writer goroutine is launched.
CopyGo ==
    /\ pc = "c_go"
    /\ wpc' = "w_header"
    /\ pc' = "c_run"
    /\ UNCHANGED <<op, sessVars, execs, cmd, writerFirst, err, outVars, log, teeVars, flen,
                   srcLen, srcEnd, srcReads, written, copied, ioEnd, wres,
                   stdin, stdinClosed>>

\* sess.CombinedOutput(scp) is called: the receiver starts, or fails to start.
CopyRun ==
    /\ pc = "c_run"
    /\ execs' = execs + 1
    /\ \/ /\ cmd' = "running"
          /\ UNCHANGED writerFirst
       \/ /\ cmd' = "startfail"
          /\ writerFirst' = WriterFailed
    /\ pc' = "c_cmdwait"
    /\ UNCHANGED <<op, sessVars, err, outVars, log, teeVars, copyVars>>

\* sess.CombinedOutput(scp) returns and its error is assigned to err.
CopyCmdReturn ==
    /\ pc = "c_cmdwait"
    /\ cmd \in Exited
    /\ err' = SessRunErr(cmd)
    /\ pc' = "c_check"
    /\ UNCHANGED <<op, sessVars, execs, cmd, writerFirst, outVars, log, teeVars, copyVars>>

\* if err != nil, in the calling goroutine.
CopyCheck ==
    /\ pc = "c_check"
    /\ pc' = IF err # Nil THEN "c_fmt" ELSE "c_gwait"
    /\ UNCHANGED <<op, sessVars, execs, cmd, writerFirst, err, outVars, log, teeVars, copyVars>>

\* return fmt.Errorf("%s: %s\noutput: %s", scp, err, out)
CopyFmt ==
    /\ pc = "c_fmt"
    /\ ret' = Errorf("scp", err)
    /\ pc' = "done"
    /\ UNCHANGED <<op, sessVars, execs, cmd, writerFirst, err, retOut, diag, dest, log, teeVars, copyVars>>

\* return g.Wait(): blocks until the writer goroutine has returned.
CopyGWait ==
    /\ pc = "c_gwait"
    /\ wpc = "w_done"
    /\ ret' = wres
    /\ pc' = "done"
    /\ UNCHANGED <<op, sessVars, execs, cmd, writerFirst, err, retOut, diag, dest, log, teeVars, copyVars>>

\* What a writer action leaves alone.
writerFrame == <<op, pc, sessVars, execs, cmd, writerFirst, outVars, log, teeVars, flen, srcLen, srcEnd>>

\* if f.GetLength() == 0
ZeroLength(n) == n = 0

\* The header line is printed to the input channel, then the length is tested.
WriterHeader ==
    /\ wpc = "w_header"
    /\ stdin' = Append(stdin, "H")
    /\ wpc' = IF ZeroLength(flen) THEN "w_term0" ELSE "w_copy"
    /\ UNCHANGED <<writerFrame, err, srcReads, written, copied, ioEnd, wres, stdinClosed>>

\* A zero-length file: the terminator is printed and the task returns nil.
WriterTermZero ==
    /\ wpc = "w_term0"
    /\ stdin' = Append(stdin, "T")
    /\ wres' = Nil
    /\ wpc' = "w_defer"
    /\ UNCHANGED <<writerFrame, err, srcReads, written, copied, ioEnd, stdinClosed>>

\* io.Copy(w, f), one byte: the source yields a byte and it is written to the
\* input channel, or the write fails and io.Copy returns, its results
\* assigned to copied and err.
WriterCopyByte ==
    /\ wpc = "w_copy"
    /\ srcReads < srcLen
    /\ srcReads' = srcReads + 1
    /\ \/ /\ stdin' = Append(stdin, "B")
          /\ written' = written + 1
          /\ UNCHANGED <<err, copied, ioEnd, wpc>>
       \/ /\ copied' = written
          /\ err' = E("writeErr")
          /\ ioEnd' = "writeErr"
          /\ wpc' = "w_chkerr"
          /\ UNCHANGED <<stdin, written>>
    /\ UNCHANGED <<writerFrame, wres, stdinClosed>>

\* io.Copy(w, f), the end of the source: end of file (io.Copy returns nil) or
\* a read error; its results are assigned to copied and err.
WriterCopyEnd ==
    /\ wpc = "w_copy"
    /\ srcReads = srcLen
    /\ srcReads' = srcReads + 1
    /\ copied' = written
    /\ err' = IF srcEnd = "EOF" THEN Nil ELSE E("readErr")
    /\ ioEnd' = srcEnd
    /\ wpc' = "w_chkerr"
    /\ UNCHANGED <<writerFrame, written, wres, stdin, stdinClosed>>

ErrSetNever(e) == FALSE

\* err != nil
ErrSet(e) == e # Nil

\* if err != nil, in the writer goroutine.
WriterCheckErr ==
    /\ wpc = "w_chkerr"
    /\ wpc' = IF ErrSet(err) THEN "w_wrap" ELSE "w_chklen"
    /\ UNCHANGED <<writerFrame, err, srcReads, written, copied, ioEnd, wres, stdin, stdinClosed>>

\* return errors.Wrap(err, "io.Copy")
WriterWrap ==
    /\ wpc = "w_wrap"
    /\ wres' = Wrap(err, "io.Copy")
    /\ wpc' = "w_defer"
    /\ UNCHANGED <<writerFrame, err, srcReads, written, copied, ioEnd, stdin, stdinClosed>>

SizeMismatchOnlyLonger(n, length) == n > length

SizeMismatchOnlyShorter(n, length) == n < length

\* copied != int64(f.GetLength())
SizeMismatch(n, length) == n # length

Mismatch == [kind |-> "mismatch", cause |-> "mismatch"]

\* The size check: the size-mismatch error, or on to the terminator.
WriterCheckLen ==
    /\ wpc = "w_chklen"
    /\ IF SizeMismatch(copied, flen)
       THEN wres' = Mismatch /\ wpc' = "w_defer"
       ELSE wres' = wres /\ wpc' = "w_term"
    /\ UNCHANGED <<writerFrame, err, srcReads, written, copied, ioEnd, stdin, stdinClosed>>

\* The terminator after the body, and return nil.
WriterTerm ==
    /\ wpc = "w_term"
    /\ stdin' = Append(stdin, "T")
    /\ wres' = Nil
    /\ wpc' = "w_defer"
    /\ UNCHANGED <<writerFrame, err, srcReads, written, copied, ioEnd, stdinClosed>>

WriterCloseOnSuccessOnly ==
    /\ wpc = "w_defer"
    /\ IF wres = Nil
       THEN stdin' = Append(stdin, "C") /\ stdinClosed' = TRUE
       ELSE UNCHANGED <<stdin, stdinClosed>>
    /\ wpc' = "w_done"
    /\ UNCHANGED <<writerFrame, err, srcReads, written, copied, ioEnd, wres>>

\* defer w.Close(): runs on every return of the writer goroutine.
WriterClose ==
    /\ wpc = "w_defer"
    /\ stdin' = Append(stdin, "C")
    /\ stdinClosed' = TRUE
    /\ wpc' = "w_done"
    /\ UNCHANGED <<writerFrame, err, srcReads, written, copied, ioEnd, wres>>

Writer ==
    \/ WriterHeader
    \/ WriterTermZero
    \/ WriterCopyByte
    \/ WriterCopyEnd
    \/ WriterCheckErr
    \/ WriterWrap
    \/ WriterCheckLen
    \/ WriterTerm
    \/ WriterClose

CopyMain ==
    \/ CopyStdinPipe
    \/ CopyGo
    \/ CopyRun
    \/ CopyCmdReturn
    \/ CopyCheck
    \/ CopyFmt
    \/ CopyGWait

\* ----------------------------------------------------------------- teeSSH
\* Where teeSSH returns to.
TeeCaller(o) == IF o = "Run" THEN "r_check" ELSE "co_out"

\* Both streams go to the one singleWriter in CombinedOutput, to outB and
\* errB in Run.
Combined == op \in {"CombinedOutput", "CombinedOutputTo"}

Target(w) == IF Combined THEN "combined" ELSE w

TeeNextPcRunFirst(p) ==
    CASE p = "t_wgadd" -> "t_run"
      [] p = "t_run" -> "t_runwait"
      [] p = "t_runwait" -> "t_go_err"
      [] p = "t_go_err" -> "t_go_out"
      [] p = "t_go_out" -> "t_wgwait"

\* The order of teeSSH's statements once it has both pipes: wg.Add(2), the
\* two go statements, s.Run(cmd), wg.Wait().
TeeNextPc(p) ==
    CASE p = "t_wgadd" -> "t_go_err"
      [] p = "t_go_err" -> "t_go_out"
      [] p = "t_go_out" -> "t_run"
      [] p = "t_run" -> "t_runwait"
      [] p = "t_runwait" -> "t_wgwait"

\* s.StdoutPipe() and the check of its error.
TeeStdoutPipe ==
    /\ pc = "t_outpipe"
    /\ \/ /\ pc' = "t_errpipe"
          /\ UNCHANGED err
       \/ /\ err' = Wrap(E("pipeErr"), "stdout")
          /\ pc' = TeeCaller(op)
    /\ UNCHANGED <<op, sessVars, execs, cmd, writerFirst, outVars, log, teeVars, copyVars>>

TeeStderrPipeIgnored ==
    /\ pc = "t_errpipe"
    /\ \/ /\ pc' = "t_wgadd"
          /\ UNCHANGED err
       \/ /\ err' = Wrap(E("pipeErr"), "stderr")
          /\ pc' = "t_wgadd"
    /\ UNCHANGED <<op, sessVars, execs, cmd, writerFirst, outVars, log, teeVars, copyVars>>

\* s.StderrPipe() and the check of its error.
TeeStderrPipe ==
    /\ pc = "t_errpipe"
    /\ \/ /\ pc' = "t_wgadd"
          /\ UNCHANGED err
       \/ /\ err' = Wrap(E("pipeErr"), "stderr")
          /\ pc' = TeeCaller(op)
    /\ UNCHANGED <<op, sessVars, execs, cmd, writerFirst, outVars, log, teeVars, copyVars>>

\* wg.Add(2)
TeeWgAdd ==
    /\ pc = "t_wgadd"
    /\ wg' = wg + 2
    /\ pc' = TeeNextPc(pc)
    /\ UNCHANGED <<op, sessVars, execs, cmd, writerFirst, err, outVars, log, total, produced,
                   pipe, tpc, tchunk, tsnap, delivered, buf, mu, copyVars>>

\* go func() {...}(): the goroutine draining stderr is launched.
TeeGoErr ==
    /\ pc = "t_go_err"
    /\ tpc' = [tpc EXCEPT !["err"] = "read"]
    /\ pc' = TeeNextPc(pc)
    /\ UNCHANGED <<op, sessVars, execs, cmd, writerFirst, err, outVars, log, total, produced,
                   pipe, tchunk, tsnap, delivered, buf, mu, wg, copyVars>>

\* go func() {...}(): the goroutine draining stdout is launched.
TeeGoOut ==
    /\ pc = "t_go_out"
    /\ tpc' = [tpc EXCEPT !["out"] = "read"]
    /\ pc' = TeeNextPc(pc)
    /\ UNCHANGED <<op, sessVars, execs, cmd, writerFirst, err, outVars, log, total, produced,
                   pipe, tchunk, tsnap, delivered, buf, mu, wg, copyVars>>

\* s.Run(cmd) is called: the command starts, or fails to start.
TeeRun ==
    /\ pc = "t_run"
    /\ execs' = execs + 1
    /\ \/ /\ cmd' = "running"
          /\ UNCHANGED writerFirst
       \/ /\ cmd' = "startfail"
          /\ writerFirst' = WriterFailed
    /\ pc' = TeeNextPc(pc)
    /\ UNCHANGED <<op, sessVars, err, outVars, log, teeVars, copyVars>>

\* err = s.Run(cmd): the call returns once the command has ended.
TeeRunReturn ==
    /\ pc = "t_runwait"
    /\ cmd \in Exited
    /\ err' = SessRunErr(cmd)
    /\ pc' = TeeNextPc(pc)
    /\ UNCHANGED <<op, sessVars, execs, cmd, writerFirst, outVars, log, teeVars, copyVars>>

WgZeroNoBarrier(n) == TRUE

\* What wg.Wait() waits for.
WgZero(n) == n = 0

TeeWgWaitAttach ==
    /\ pc = "t_wgwait"
    /\ WgZero(wg)
    /\ err' = IF \E w \in Streams : <<"tee", w>> \in log
              THEN [kind |-> "tee", cause |-> err.cause]
              ELSE err
    /\ pc' = TeeCaller(op)
    /\ UNCHANGED <<op, sessVars, execs, cmd, writerFirst, outVars, log, teeVars, copyVars>>

\* wg.Wait(); return err
TeeWgWait ==
    /\ pc = "t_wgwait"
    /\ WgZero(wg)
    /\ pc' = TeeCaller(op)
    /\ UNCHANGED <<op, sessVars, execs, cmd, writerFirst, err, outVars, log, teeVars, copyVars>>

\* What a tee goroutine's action leaves alone.
teeFrame == <<op, pc, sessVars, execs, cmd, writerFirst, err, outVars, total, produced, copyVars>>

\* util.TeePrefix, one read of the pipe: a chunk of what the pipe holds, the
\* end of the stream (return nil) or a read error (returned, and logged by
\* the goroutine); a goroutine that returns calls wg.Done().
TeeRead(w) ==
    /\ tpc[w] = "read"
    /\ \/ /\ pipe[w] # <<>>
          /\ \E k \in 1..Len(pipe[w]) :
                /\ tchunk' = [tchunk EXCEPT ![w] = SubSeq(pipe[w], 1, k)]
                /\ pipe' = [pipe EXCEPT ![w] = SubSeq(@, k + 1, Len(@))]
          /\ tpc' = [tpc EXCEPT ![w] = IF Combined THEN "lock" ELSE "bread"]
          /\ UNCHANGED <<wg, log>>
       \/ /\ pipe[w] = <<>>
          /\ cmd \in Exited
          /\ tpc' = [tpc EXCEPT ![w] = "done"]
          /\ wg' = wg - 1
          /\ UNCHANGED <<pipe, tchunk, log>>
       \/ /\ cmd # "idle"
          /\ log' = log \cup {<<"tee", w>>}
          /\ tpc' = [tpc EXCEPT ![w] = "done"]
          /\ wg' = wg - 1
          /\ UNCHANGED <<pipe, tchunk>>
    /\ UNCHANGED <<teeFrame, tsnap, delivered, buf, mu>>

MuFreeUnlocked(m) == TRUE

\* Whether w.mu.Lock() can proceed.
MuFree(m) == m = "free"

\* singleWriter.Write: w.mu.Lock()
TeeLock(w) ==
    /\ tpc[w] = "lock"
    /\ MuFree(mu)
    /\ mu' = w
    /\ tpc' = [tpc EXCEPT ![w] = "bread"]
    /\ UNCHANGED <<teeFrame, log, pipe, tchunk, tsnap, delivered, buf, wg>>

TeeBufReadUnlocks(w) ==
    /\ tpc[w] = "bread"
    /\ tsnap' = [tsnap EXCEPT ![w] = buf[Target(w)]]
    /\ mu' = IF Combined THEN "free" ELSE mu
    /\ tpc' = [tpc EXCEPT ![w] = "bstore"]
    /\ UNCHANGED <<teeFrame, log, pipe, tchunk, delivered, buf, wg>>

\* bytes.Buffer.Write, first half: the buffer's content is read.
TeeBufRead(w) ==
    /\ tpc[w] = "bread"
    /\ tsnap' = [tsnap EXCEPT ![w] = buf[Target(w)]]
    /\ tpc' = [tpc EXCEPT ![w] = "bstore"]
    /\ UNCHANGED <<teeFrame, log, pipe, tchunk, delivered, buf, mu, wg>>

\* bytes.Buffer.Write, second half: the content with the chunk appended is
\* stored; singleWriter.Write then unlocks (its deferred w.mu.Unlock()).
TeeBufStore(w) ==
    /\ tpc[w] = "bstore"
    /\ buf' = [buf EXCEPT ![Target(w)] = tsnap[w] \o tchunk[w]]
    /\ delivered' = [delivered EXCEPT ![w] = @ + Len(tchunk[w])]
    /\ mu' = IF Combined THEN "free" ELSE mu
    /\ tchunk' = [tchunk EXCEPT ![w] = <<>>]
    /\ tsnap' = [tsnap EXCEPT ![w] = <<>>]
    /\ tpc' = [tpc EXCEPT ![w] = "read"]
    /\ UNCHANGED <<teeFrame, log, pipe, wg>>

Tee(w) ==
    \/ TeeRead(w)
    \/ TeeLock(w)
    \/ TeeBufRead(w)
    \/ TeeBufStore(w)

TeeMain ==
    \/ TeeStdoutPipe
    \/ TeeStderrPipe
    \/ TeeWgAdd
    \/ TeeGoErr
    \/ TeeGoOut
    \/ TeeRun
    \/ TeeRunReturn
    \/ TeeWgWait

\* -------------------------------------------------------------------- Run
RunResultAlwaysNil(e) == Nil

\* if err != nil { return errors.Wrapf(err, "command failed: ...") }; return nil
RunResult(e) == IF e # Nil THEN Wrap(e, "command failed") ELSE Nil

\* The check of teeSSH's error: a failure is wrapped with the text of outB
\* and errB.
RunCheck ==
    /\ pc = "r_check"
    /\ ret' = RunResult(err)
    /\ diag' = IF err # Nil THEN <<buf["out"], buf["err"]>> ELSE diag
    /\ pc' = "r_close"
    /\ UNCHANGED <<op, sessVars, execs, cmd, writerFirst, err, retOut, dest, log, teeVars, copyVars>>

\* The possible results of sess.Close().
CloseResults == {"nil", "EOF", "closeErr"}

RunClosePropagates ==
    /\ pc = "r_close"
    /\ sess' = "closed"
    /\ closes' = closes + 1
    /\ \E c \in CloseResults :
          /\ closeRes' = c
          /\ log' = IF c \notin {"nil", "EOF"} THEN log \cup {<<"session close">>} ELSE log
          /\ ret' = IF c \notin {"nil", "EOF"} /\ ret = Nil THEN E(c) ELSE ret
    /\ pc' = "done"
    /\ UNCHANGED <<op, opens, execs, cmd, writerFirst, err, retOut, diag, dest, teeVars, copyVars>>

\* Run's deferred function: sess.Close(), an error other than io.EOF logged.
RunClose ==
    /\ pc = "r_close"
    /\ sess' = "closed"
    /\ closes' = closes + 1
    /\ \E c \in CloseResults :
          /\ closeRes' = c
          /\ log' = IF c \notin {"nil", "EOF"} THEN log \cup {<<"session close">>} ELSE log
    /\ pc' = "done"
    /\ UNCHANGED <<op, opens, execs, cmd, writerFirst, err, outVars, teeVars, copyVars>>

\* --------------------------------------------------------- CombinedOutput
\* out := combined.b.String(); return out, err
CombinedOutputOut ==
    /\ pc = "co_out"
    /\ retOut' = buf["combined"]
    /\ ret' = err
    /\ pc' = "co_close"
    /\ UNCHANGED <<op, sessVars, execs, cmd, writerFirst, err, diag, dest, log, teeVars, copyVars>>

\* defer sess.Close(), of CombinedOutput; CombinedOutputTo then goes on.
CombinedOutputClose ==
    /\ pc = "co_close"
    /\ sess' = "closed"
    /\ closes' = closes + 1
    /\ closeRes' \in CloseResults
    /\ pc' = IF op = "CombinedOutputTo" THEN "to_check" ELSE "done"
    /\ UNCHANGED <<op, opens, execs, cmd, writerFirst, err, outVars, log, teeVars, copyVars>>

\* ------------------------------------------------------- CombinedOutputTo
\* if err != nil { return err }: the text is forwarded when err is nil.
ToForward(e) == e = Nil

\* The check of CombinedOutput's error.
CombinedOutputToCheck ==
    /\ pc = "to_check"
    /\ pc' = IF ToForward(ret) THEN "to_write" ELSE "done"
    /\ UNCHANGED <<op, sessVars, execs, cmd, writerFirst, err, outVars, log, teeVars, copyVars>>

\* _, err = w.Write([]byte(out)); return err
CombinedOutputToWrite ==
    /\ pc = "to_write"
    /\ \/ /\ dest' = dest \o retOut
          /\ ret' = Nil
       \/ /\ ret' = E("writeErr")
          /\ UNCHANGED dest
    /\ pc' = "done"
    /\ UNCHANGED <<op, sessVars, execs, cmd, writerFirst, err, retOut, diag, log, teeVars, copyVars>>

\* ----------------------------------------------------------------- Remove
\* sess.Run(cmd) is called with the delete command.
RemoveRun ==
    /\ pc = "rm_run"
    /\ execs' = execs + 1
    /\ \/ /\ cmd' = "running"
          /\ UNCHANGED writerFirst
       \/ /\ cmd' = "startfail"
          /\ writerFirst' = WriterFailed
    /\ pc' = "rm_wait"
    /\ UNCHANGED <<op, sessVars, err, outVars, log, teeVars, copyVars>>

RemoveReturnRetry ==
    /\ pc = "rm_wait"
    /\ cmd \in Exited
    /\ IF cmd # "exit0" /\ execs < 2
       THEN pc' = "rm_run" /\ cmd' = "idle" /\ ret' = ret
       ELSE pc' = "rm_close" /\ cmd' = cmd /\ ret' = SessRunErr(cmd)
    /\ UNCHANGED <<op, sessVars, execs, writerFirst, err, retOut, diag, dest, log, teeVars, copyVars>>

\* return sess.Run(cmd)
RemoveReturn ==
    /\ pc = "rm_wait"
    /\ cmd \in Exited
    /\ ret' = SessRunErr(cmd)
    /\ pc' = "rm_close"
    /\ UNCHANGED <<op, sessVars, execs, cmd, writerFirst, err, retOut, diag, dest, log, teeVars, copyVars>>

\* defer sess.Close(), of Remove.
RemoveClose ==
    /\ pc = "rm_close"
    /\ sess' = "closed"
    /\ closes' = closes + 1
    /\ closeRes' \in CloseResults
    /\ pc' = "done"
    /\ UNCHANGED <<op, opens, execs, cmd, writerFirst, err, outVars, log, teeVars, copyVars>>

Facade ==
    \/ NewSession
    \/ RunCheck
    \/ RunClose
    \/ CombinedOutputOut
    \/ CombinedOutputClose
    \/ CombinedOutputToCheck
    \/ CombinedOutputToWrite
    \/ RemoveRun
    \/ RemoveReturn
    \/ RemoveClose

Remote ==
    \/ \E w \in Streams : RemoteWrite(w)
    \/ RemoteExit

Next ==
    \/ Facade
    \/ TeeMain
    \/ \E w \in Streams : Tee(w)
    \/ CopyMain
    \/ Writer
    \/ Remote

Spec == Init /\ [][Next]_vars

\* Every step of a call moves it forward, so a behaviour can only end by
\* stuttering: the Go scheduler runs a goroutine that can run, and the remote
\* command writes when its pipe has room and ends when its output is written.
FairSpec == Spec /\ WF_vars(Next)

\* ------------------------------------------------------------ properties
\* How often x was sent on the input channel.
Sent(x) == Cardinality({i \in DOMAIN stdin : stdin[i] = x})

\* The place of each kind of event in the sink protocol.
Rank(x) == CASE x = "H" -> 0 [] x = "B" -> 1 [] x = "T" -> 2 [] x = "C" -> 3

TeeErrors == {<<"tee", w>> : w \in Streams}

TeesLaunched == \E w \in Streams : tpc[w] # "idle"

TeesDone == \A w \in Streams : tpc[w] = "done"

\* The positions of the caller after teeSSH has returned.
AfterTeeSSH == pc \in {"r_check", "r_close", "co_out", "co_close", "to_check", "to_write", "done"}

\* C1: whenever Copy has returned after launching its writer task, the writer
\* task has finished (the input channel is closed) and the remote command
\* wait has returned.
C1_CopyJoinsWriterAndWait ==
    (op = "Copy" /\ pc = "done" /\ wpc # "idle")
        => (wpc = "w_done" /\ stdinClosed /\ cmd \in Exited)

\* C2: Run returns nil if and only if the remote command ran and exited with
\* status zero, whatever session opening, pipe acquisition, the tee reads and
\* the session close did.
C2_RunNilIffExitZero ==
    (op = "Run" /\ pc = "done") => ((ret = Nil) <=> (cmd = "exit0"))

\* Run returned nil although a tee read failed and the session close failed.
C2_Witness ==
    /\ op = "Run" /\ pc = "done" /\ ret = Nil /\ cmd = "exit0"
    /\ <<"tee", "out">> \in log
    /\ <<"session close">> \in log

\* C3: when Copy returns nil, the body bytes sent on the input channel are
\* exactly the declared length; for a declared length of zero the writer
\* sends the header, then one terminator, no body byte, and never reads the
\* content source.
C3_SuccessMeansExactLength ==
    op = "Copy" =>
        /\ (pc = "done" /\ ret = Nil) => Sent("B") = flen
        /\ flen = 0 =>
              /\ srcReads = 0
              /\ Sent("B") = 0
              /\ wpc \in {"w_defer", "w_done"} =>
                    (Sent("T") = 1 /\ SubSeq(stdin, 1, 2) = <<"H", "T">>)

\* Copy returned nil for a file with a body.
C3_Witness ==
    /\ op = "Copy" /\ pc = "done" /\ ret = Nil
    /\ flen > 0 /\ Sent("B") = flen /\ srcReads = flen + 1

\* C4: when the content source ends before the declared non-zero length,
\* Copy returns the size-mismatch error and the input channel is closed when
\* it returns, whatever the remote command did.
C4_ShortSourceSizeMismatch ==
    (op = "Copy" /\ pc = "done" /\ flen > 0 /\ srcLen < flen /\ ioEnd = "EOF")
        => (ret = Mismatch /\ stdinClosed)

\* C5: once both tees writing to the one singleWriter have finished, the
\* captured content is as long as the bytes the two tees handed to Write,
\* and, when neither tee had a read error, as the bytes the command produced.
C5_CombinedLengthIsSum ==
    (Combined /\ TeesDone) =>
        /\ Len(buf["combined"]) = delivered["out"] + delivered["err"]
        /\ (log \cap TeeErrors = {}) =>
              Len(buf["combined"]) = produced["out"] + produced["err"]

\* Both streams were captured, the first stderr byte between two stdout bytes.
C5_Witness ==
    /\ Combined /\ TeesDone
    /\ Len(buf["combined"]) >= 3
    /\ buf["combined"][1] = <<"out", 1>>
    /\ buf["combined"][2] = <<"err", 1>>
    /\ buf["combined"][3] = <<"out", 2>>

\* C6: once the two drain tasks are launched, teeSSH returns only after both
\* have finished, so Run and CombinedOutput read their buffers after every
\* writer has stopped.
C6_ReturnAfterBothTees ==
    (AfterTeeSSH /\ TeesLaunched) => TeesDone

\* teeSSH returned a command failure to Run, the output drained.
C6_Witness ==
    /\ op = "Run" /\ pc = "r_check" /\ TeesDone
    /\ cmd = "exitN"
    /\ delivered["out"] > 0 /\ delivered["err"] > 0

\* C7: an operation that opened a session has closed it exactly once when it
\* returns.
C7_SessionClosedExactlyOnce ==
    (pc = "done" /\ opens > 0) => (closes = 1 /\ sess = "closed")

\* C8: after CombinedOutputTo has run the command and returned, the
\* destination holds exactly the text CombinedOutput captured, when the
\* command failed as when it succeeded (a destination that refuses the write
\* aside).
C8_DestinationGetsCapturedText ==
    (op = "CombinedOutputTo" /\ pc = "done" /\ execs > 0 /\ ret # E("writeErr"))
        => dest = retOut

\* C9: on the input channel the writer's events come in the order header,
\* body bytes, one terminator, close; for a non-zero length the terminator
\* follows only an io.Copy that ended without error with exactly the declared
\* number of bytes.
C9_WriterEventOrder ==
    op = "Copy" =>
        /\ \A i, j \in DOMAIN stdin : i < j => Rank(stdin[i]) <= Rank(stdin[j])
        /\ stdin # <<>> => stdin[1] = "H"
        /\ Sent("H") <= 1 /\ Sent("T") <= 1 /\ Sent("C") <= 1
        /\ (flen > 0 /\ Sent("T") = 1) =>
              (ioEnd = "EOF" /\ copied = flen /\ Sent("B") = flen)

\* The whole protocol of a file with a body was sent.
C9_Witness ==
    /\ op = "Copy" /\ flen > 1 /\ stdinClosed
    /\ Sent("H") = 1 /\ Sent("B") = flen /\ Sent("T") = 1
    /\ stdin[Len(stdin)] = "C"

\* C10: whenever the writer task has finished, on any of its exit paths, the
\* input channel is closed.
C10_WriterDoneMeansClosed ==
    wpc = "w_done" => (stdinClosed /\ stdin # <<>> /\ stdin[Len(stdin)] = "C")

\* The writer finished with the size-mismatch error.
C10_Witness == wpc = "w_done" /\ wres = Mismatch /\ stdinClosed

\* C11: when both the writer task and the remote command of Copy failed,
\* Copy returns the error that came first: the writer's error if the writer
\* had failed when the command failed, the command's error otherwise.
C11_FirstErrorSurfaced ==
    (op = "Copy" /\ pc = "done" /\ cmd \in {"exitN", "startfail"}
        /\ wpc = "w_done" /\ wres # Nil)
        => IF writerFirst THEN ret = wres ELSE ret.kind = "scp"

\* C12: a call of Remove opens at most one session and runs at most one
\* remote command, and none without a session; when it has returned it has
\* either opened one session, run one command and returned that run's
\* result, or failed to open the session and returned that failure.
C12_RemoveSingleAttempt ==
    op = "Remove" =>
        /\ opens <= 1 /\ execs <= opens
        /\ pc = "done" =>
              \/ opens = 1 /\ execs = 1 /\ ret = SessRunErr(cmd)
              \/ opens = 0 /\ execs = 0 /\ ret = Wrap(E("sessErr"), "getting ssh session")

\* Remove returned the failure of its one command.
C12_Witness ==
    /\ op = "Remove" /\ pc = "done" /\ closes = 1
    /\ execs = 1 /\ cmd = "exitN" /\ ret = E("exitN")

\* C13: with pipes of bounded capacity and a remote command that writes a
\* finite output, larger than a pipe or not, and then ends, teeSSH does not
\* deadlock: under fair scheduling, once it has its pipes it returns, the
\* drains running while s.Run(cmd) waits (a drain that stops on a read error
\* aside).
C13_TeeSSHReturns ==
    (op \in TeeOps /\ pc = "t_wgadd") ~> (AfterTeeSSH \/ log \cap TeeErrors # {})

\* teeSSH returned after a command that wrote more than a pipe holds to each
\* stream.
C13_Witness ==
    /\ AfterTeeSSH /\ TeesDone
    /\ log \cap TeeErrors = {}
    /\ produced["out"] > PipeCap /\ produced["err"] > PipeCap
    /\ cmd = "exit0"

\* The next step of the calling goroutine of Copy writes err (the result of
\* sess.CombinedOutput is assigned), or reads it.
MainWritesErr == pc = "c_cmdwait" /\ cmd \in Exited

MainReadsErr == pc \in {"c_check", "c_fmt"}

\* The next step of Copy's writer goroutine can write err (io.Copy returns and
\* its results are assigned), or reads it.
WriterWritesErr == wpc = "w_copy"

WriterReadsErr == wpc \in {"w_chkerr", "w_wrap"}

\* C14: within one call the singleWriter's buffer is the only state written
\* by more than one running task, and it is written under its mutex; no Run
\* buffer is read while a tee can still write it, and no variable of Copy is
\* written by one task while the other task of the call reads or writes it.
C14_OnlyCaptureBufferShared ==
    /\ \A w \in Streams : (Combined /\ tpc[w] \in {"bread", "bstore"}) => mu = w
    /\ (op = "Run" /\ pc = "r_check" /\ TeesLaunched) => TeesDone
    /\ op = "Copy" =>
          /\ ~(MainWritesErr /\ (WriterWritesErr \/ WriterReadsErr))
          /\ ~(WriterWritesErr /\ (MainWritesErr \/ MainReadsErr))

\* C20: whenever the remote receiver of Copy reported failure, Copy returns
\* an error, and an error it returns as a command failure carries the
\* command's error, not one the writer task assigned to the shared err.
C20_CommandFailureNeverDropped ==
    (op = "Copy" /\ pc = "done" /\ cmd \in {"exitN", "startfail"})
        => (ret # Nil /\ (ret.kind = "scp" => ret.cause = cmd))

\* teeSSH has returned to its caller, which has not yet used the result.
TeeSSHReturned == op \in TeeOps /\ pc \in {"r_check", "co_out"}

\* C15 as stated: teeSSH returns the command's error whenever the command
\* failed, and a read error a tee reported is attached to the result, which
\* is then more than the bare result of the command.
C15_TeeErrorAttached ==
    (TeeSSHReturned /\ TeesLaunched) =>
        /\ cmd \in {"exitN", "startfail"} => err # Nil
        /\ log \cap TeeErrors # {} => err # SessRunErr(cmd)

\* C15, amended: once the tees were launched teeSSH returns exactly the result
\* of the command, its exit error or nil, whether or not a tee reported a read
\* error; a tee's read error goes to the log only.
C15_TeeErrorOnlyLogged ==
    (TeeSSHReturned /\ TeesLaunched) => err = SessRunErr(cmd)

C15_Witness ==
    /\ TeeSSHReturned
    /\ cmd = "exitN"
    /\ log \cap TeeErrors # {}
    /\ err = E("exitN")

\* C16: no command is executed before teeSSH has both pipes, and a result of
\* teeSSH that is a pipe setup error means teeSSH has returned with no command
\* executed and no drain goroutine launched.
C16_PipesBeforeCommand ==
    op \in TeeOps =>
        /\ pc \in {"new", "t_outpipe", "t_errpipe"} =>
              cmd = "idle" /\ execs = 0 /\ ~TeesLaunched
        /\ err.kind \in {"stdout", "stderr"} =>
              AfterTeeSSH /\ cmd = "idle" /\ execs = 0 /\ ~TeesLaunched /\ wg = 0

C16_Witness ==
    /\ op = "Run"
    /\ pc = "done"
    /\ ret = [kind |-> "command failed", cause |-> "pipeErr"]
    /\ err.kind = "stderr"
    /\ execs = 0

\* What each operation returns, from what it knew before closing its session.
ReturnBeforeClose ==
    CASE op = "Run" -> RunResult(err)
      [] op = "CombinedOutput" -> err
      [] op = "Remove" -> SessRunErr(cmd)

\* C17: for Run, CombinedOutput and Remove, the error (and the text) of a call
\* that closed its session is what the call had before the close, whichever
\* result the close gave.
C17_CloseNeverChangesReturn ==
    (op \in {"Run", "CombinedOutput", "Remove"} /\ pc = "done" /\ closeRes \in CloseResults) =>
        /\ ret = ReturnBeforeClose
        /\ op = "CombinedOutput" => retOut = buf["combined"]
        /\ op # "CombinedOutput" => retOut = <<>>

C17_Witness ==
    /\ op = "Run"
    /\ pc = "done"
    /\ closeRes = "closeErr"
    /\ cmd = "exit0"
    /\ ret = Nil

\* The bytes of stream w in the sequence q, in the order they have there.
OfStream(q, w) == SelectSeq(q, LAMBDA b : b[1] = w)

\* C18: a Write to the singleWriter holds the mutex from reading the buffer to
\* storing it, so the content it appends its chunk to is the current content
\* and the chunk lands whole; the buffer holds of each stream the bytes
\* delivered so far, each once and in the order the stream produced them.
C18_AppendsAtomicInOrder ==
    Combined =>
        /\ \A w \in Streams :
              /\ tpc[w] = "bstore" => mu = w /\ tsnap[w] = buf["combined"]
              /\ OfStream(buf["combined"], w) = [i \in 1..delivered[w] |-> <<w, i>>]
        /\ Len(buf["combined"]) = delivered["out"] + delivered["err"]
        /\ (TeesDone /\ log \cap TeeErrors = {}) =>
              \A w \in Streams : delivered[w] = produced[w]

C18_Witness ==
    /\ Combined
    /\ tpc["out"] = "bstore"
    /\ Len(tchunk["out"]) = 2
    /\ tpc["err"] = "lock"
    /\ buf["combined"] = <<<<"err", 1>>>>

\* C19 as stated: for a declared length above zero the body bytes written to
\* the input channel never exceed the declared length.
C19_NeverMoreThanDeclared ==
    (op = "Copy" /\ flen > 0) => Sent("B") <= flen

\* C19, amended: the writer sends what the source yields, never more than
\* that; body bytes beyond the declared length are never followed by the
\* terminator, and the writer then returns an error.
C19_ExcessIsAnError ==
    op = "Copy" =>
        /\ Sent("B") <= srcLen
        /\ Sent("B") > flen =>
              /\ Sent("T") = 0
              /\ wpc \in {"w_defer", "w_done"} => wres # Nil

C19_Witness ==
    /\ op = "Copy"
    /\ flen > 0
    /\ Sent("B") > flen
    /\ wpc = "w_done"
    /\ wres = Mismatch

====
